---- MODULE Spec2Model ----
(***************************************************************************)
(* The SGM scoring pipeline of gdelt_conflict_ai: event aggregation and    *)
(* scoring (core/gdelt_client.py, core/sgm_data_service.py), the sgm_scores *)
(* collection with its keyed upserts, the read operations with their seed   *)
(* fallback and the analysis jobs of the route layer                        *)
(* (app/api_routes/sgm_routes.py).                                          *)
(*                                                                         *)
(* Conventions.  A Python string is a sequence of one-character strings.    *)
(* A value that may be None is a set with at most one element: {} is None,  *)
(* {v} is v.  A dict is a function whose DOMAIN is the set of keys present. *)
(* A float is an integer number of 1/Unit parts.                            *)
(* The driver is read as the code intends it: `if sgm_collection:` is a     *)
(* test against None, a bulk write applies its upserts in order, each        *)
(* atomic on its document, and any store call may raise.                     *)
(***************************************************************************)
EXTENDS Integers, Sequences, FiniteSets, TLC

\* ------------------------------------------------------------------ bounds
\* Route-layer analysis jobs that may be triggered.
MaxJobs == 2
\* SGMService command-line runs.
MaxSvcRuns == 1
\* Events in the batch one run fetches.
MaxEvents == 2
MaxAcledJobs == 2
MaxAcledCalls == 2

\* ----------------------------------------------------------------- strings
Uppers == <<"A", "B", "C", "D", "E", "F", "G", "H", "I", "J", "K", "L", "M",
            "N", "O", "P", "Q", "R", "S", "T", "U", "V", "W", "X", "Y", "Z">>
Lowers == <<"a", "b", "c", "d", "e", "f", "g", "h", "i", "j", "k", "l", "m",
            "n", "o", "p", "q", "r", "s", "t", "u", "v", "w", "x", "y", "z">>

UpperChar(c) ==
    IF \E i \in 1..Len(Lowers) : Lowers[i] = c
    THEN Uppers[CHOOSE i \in 1..Len(Lowers) : Lowers[i] = c]
    ELSE c

LowerChar(c) ==
    IF \E i \in 1..Len(Uppers) : Uppers[i] = c
    THEN Lowers[CHOOSE i \in 1..Len(Uppers) : Uppers[i] = c]
    ELSE c

\* str.upper()
Upper(s) == [i \in 1..Len(s) |-> UpperChar(s[i])]

\* str.lower()
Lower(s) == [i \in 1..Len(s) |-> LowerChar(s[i])]

\* s[:n]
Prefix(s, n) == SubSeq(s, 1, IF n < Len(s) THEN n ELSE Len(s))

\* needle in hay
Contains(hay, needle) ==
    LET h == hay
        n == needle
    IN  \E i \in 0..(Len(h) - Len(n)) : SubSeq(h, i + 1, i + Len(n)) = n

\* s.split(',')[-1]
LastSegment(s) ==
    LET commas == {i \in 1..Len(s) : s[i] = ","}
        last   == CHOOSE i \in commas : \A j \in commas : j <= i
    IN  IF commas = {} THEN s ELSE SubSeq(s, last + 1, Len(s))

\* s.strip(), for the blanks a location carries
Strip(s) ==
    LET inked == {i \in 1..Len(s) : s[i] # " "}
        lo    == CHOOSE i \in inked : \A j \in inked : i <= j
        hi    == CHOOSE i \in inked : \A j \in inked : j <= i
    IN  IF inked = {} THEN <<>> ELSE SubSeq(s, lo, hi)

\* ------------------------------------------------------- None and dict.get
None == {}
Some(v) == {v}
Val(x) == CHOOSE v \in x : TRUE

\* dict.get(k, default)
Get(d, k, default) == IF k \in DOMAIN d THEN d[k] ELSE default

\* Python truth of an optional string: None and "" are false.
TruthyStr(x) == x # None /\ Val(x) # <<>>

\* `x or 0` on an optional number.
OrZero(x) == IF x = None THEN 0 ELSE Val(x)

\* ----------------------------------------------------------------- numbers
Unit == 48 * 100

Min(a, b) == IF a <= b THEN a ELSE b
Max(a, b) == IF a >= b THEN a ELSE b

\* round(x, n): to the nearest multiple of step, a tie going to the even one.
RoundTo(x, step) ==
    LET q == x \div step
        r == x % step
    IN  IF 2 * r < step THEN q * step
        ELSE IF 2 * r > step THEN (q + 1) * step
        ELSE IF q % 2 = 0 THEN q * step ELSE (q + 1) * step

Round1(x) == RoundTo(x, Unit \div 10)
\* Variant for the claims: the value carried without rounding.
Round2_Exact(x) == x

Round2(x) == RoundTo(x, Unit \div 100)

RECURSIVE SumSeq(_)
SumSeq(s) == IF s = <<>> THEN 0 ELSE Head(s) + SumSeq(Tail(s))

\* ------------------------------------------------------------ country code
country_codes ==
    <<[name |-> <<"U", "n", "i", "t", "e", "d", " ", "S", "t", "a", "t", "e", "s">>,
       code |-> <<"U", "S">>],
      [name |-> <<"R", "u", "s", "s", "i", "a">>,
       code |-> <<"R", "U">>],
      [name |-> <<"C", "h", "i", "n", "a">>,
       code |-> <<"C", "N">>],
      [name |-> <<"G", "e", "r", "m", "a", "n", "y">>,
       code |-> <<"D", "E">>],
      [name |-> <<"F", "r", "a", "n", "c", "e">>,
       code |-> <<"F", "R">>],
      [name |-> <<"U", "n", "i", "t", "e", "d", " ", "K", "i", "n", "g", "d", "o", "m">>,
       code |-> <<"G", "B">>],
      [name |-> <<"J", "a", "p", "a", "n">>,
       code |-> <<"J", "P">>],
      [name |-> <<"I", "n", "d", "i", "a">>,
       code |-> <<"I", "N">>],
      [name |-> <<"B", "r", "a", "z", "i", "l">>,
       code |-> <<"B", "R">>],
      [name |-> <<"C", "a", "n", "a", "d", "a">>,
       code |-> <<"C", "A">>],
      [name |-> <<"A", "u", "s", "t", "r", "a", "l", "i", "a">>,
       code |-> <<"A", "U">>],
      [name |-> <<"S", "o", "u", "t", "h", " ", "A", "f", "r", "i", "c", "a">>,
       code |-> <<"Z", "A">>]>>

\* name.lower() for the names of the table
country_names_lower == [i \in 1..Len(country_codes) |-> Lower(country_codes[i].name)]

\* get_country_code / SGMService._get_country_code: the first table entry
\* whose name occurs in the country name, else the first two letters.
get_country_code(country_name) ==
    LET lowered == Lower(country_name)
        hits    == {i \in 1..Len(country_codes) :
                      Contains(lowered, country_names_lower[i])}
        first   == CHOOSE i \in hits : \A j \in hits : i <= j
    IN  IF hits # {} THEN country_codes[first].code
        ELSE Upper(Prefix(country_name, 2))

\* ----------------------------------------------------------------- scoring
\* random.randint(-10, 10)
JitterMin == -10
JitterMax == 10
Jitters == JitterMin..JitterMax

Unknown == <<"U", "n", "k", "n", "o", "w", "n">>

\* The score without its clamp.
Score010_Unclamped(avg) == 5 * Unit - (avg \div 2)

\* min(10, max(0, 5 - (avg / 2)))
Score010(avg) == Min(10 * Unit, Max(0, 5 * Unit - (avg \div 2)))

\* get_category / SGMService._determine_category
get_category(gscs) ==
    IF gscs <= 2 * Unit THEN "Non-Supremacist Governance"
    ELSE IF gscs <= 4 * Unit THEN "Mixed Governance"
    ELSE IF gscs <= 6 * Unit THEN "Soft Supremacism"
    ELSE IF gscs <= 8 * Unit THEN "Structural Supremacism"
    ELSE "Extreme Supremacism"

\* generate_description / SGMService._generate_description: one template per
\* bucket of gscs, with the country interpolated.
generate_description(country, domestic, international, gscs) ==
    [template |-> IF gscs <= 2 * Unit THEN "low levels"
                  ELSE IF gscs <= 4 * Unit THEN "mixed governance"
                  ELSE IF gscs <= 6 * Unit THEN "soft supremacism"
                  ELSE IF gscs <= 8 * Unit THEN "structural supremacism"
                  ELSE "extreme supremacist governance",
     country  |-> country]

\* The index without its clamp.
StabilityIndex_Unclamped(gscs, jitter) == ((gscs * 8) \div Unit) + jitter

\* sti = int(gscs * 8) + random.randint(-10, 10); sti = max(0, min(100, sti))
StabilityIndex(gscs, jitter) ==
    Max(0, Min(100, ((gscs * 8) \div Unit) + jitter))

\* The keys of country_data in insertion order: each event's key at its
\* first occurrence.  keys[i] is the key of the i-th event.
KeysInOrder(keys) ==
    LET F[i \in 0..Len(keys)] ==
            IF i = 0 THEN <<>>
            ELSE IF \E j \in 1..Len(F[i - 1]) : F[i - 1][j] = keys[i]
                 THEN F[i - 1]
                 ELSE Append(F[i - 1], keys[i])
    IN  F[Len(keys)]

\* Variant for the claims: every group takes every event of the batch.
Selected_All(events, keys, k) == events

\* country_data[k]["events"]: the events of key k, in their order.
Selected(events, keys, k) ==
    LET F[i \in 0..Len(events)] ==
            IF i = 0 THEN <<>>
            ELSE IF keys[i] = k THEN Append(F[i - 1], events[i]) ELSE F[i - 1]
    IN  F[Len(events)]

\* --- process_gdelt_data (core/gdelt_client.py)
\* country = event.get("country", "Unknown")
GdeltCountry(event) == Get(event, "country", Some(Unknown))

\* Variant for the claims: the code the event provides is not looked at.
GdeltCode_IgnoresGiven(event) == get_country_code(Val(GdeltCountry(event)))

\* event.get("country_code") or get_country_code(country), for an event whose
\* country is a string or whose country_code is given.
GdeltCode(event) ==
    LET given == Get(event, "country_code", None)
    IN  IF TruthyStr(given) THEN Val(given)
        ELSE get_country_code(Val(GdeltCountry(event)))

\* The country of each event of the batch.
GdeltCountries(events) == [i \in 1..Len(events) |-> GdeltCountry(events[i])]

\* get_country_code(None) raises AttributeError (None has no lower()).
GdeltRaises(event) ==
    /\ ~TruthyStr(Get(event, "country_code", None))
    /\ GdeltCountry(event) = None

\* Variant for the claims: the last event of the group stands for it.
Representative_Last(group) == group[Len(group)]

\* The event that created country_data[country]: it gives the aggregate its
\* code and its coordinates, later events only add to the sums.
Representative(group) == group[1]

GdeltScore(country, group, jitter, now) ==
    LET event_count   == Len(group)
        avg_tone_sum  == SumSeq([i \in 1..Len(group) |->
                                   OrZero(Get(group[i], "avg_tone", Some(0)))])
        goldstein_sum == SumSeq([i \in 1..Len(group) |->
                                   OrZero(Get(group[i], "goldstein_scale", Some(0)))])
        avg_tone      == avg_tone_sum \div event_count
        avg_goldstein == goldstein_sum \div event_count
        intl_score    == Score010(avg_tone)
        domestic_score == Score010(avg_goldstein)
        gscs          == (domestic_score + intl_score) \div 2
    IN  [code        |-> GdeltCode(Representative(group)),
         country     |-> country,
         srsD        |-> Round1(domestic_score),
         srsI        |-> Round1(intl_score),
         gscs        |-> Round1(gscs),
         sgm         |-> Round1(gscs),
         sti         |-> StabilityIndex(gscs, jitter),
         category    |-> get_category(gscs),
         description |-> generate_description(country, domestic_score, intl_score, gscs),
         event_count |-> event_count,
         avg_tone    |-> Round2(avg_tone),
         latitude    |-> Get(Representative(group), "latitude", Some(0)),
         longitude   |-> Get(Representative(group), "longitude", Some(0)),
         updated_at  |-> now]

\* The result of a call: raised, or the list it returned.
Raised == [raised |-> TRUE, scores |-> <<>>]
Returned(scores) == [raised |-> FALSE, scores |-> scores]

process_gdelt_data(events, jitter, now) ==
    IF \E i \in 1..Len(events) : GdeltRaises(events[i]) THEN Raised
    ELSE LET keys == KeysInOrder(GdeltCountries(events))
         IN  Returned([g \in 1..Len(keys) |->
                 GdeltScore(keys[g], Selected(events, GdeltCountries(events), keys[g]),
                            jitter[g], now)])

\* --- SGMService.calculate_sgm_scores (core/sgm_data_service.py)
\* location = event.get('location', 'Unknown')
\* country = location.split(',')[-1].strip() if ',' in location else location
SvcCountry(event) ==
    LET location == Get(event, "location", Some(Unknown))
    IN  IF location = None THEN None    \* no country: the call raises, see SvcRaises
        ELSE IF Contains(Val(location), <<",">>)
             THEN Some(Strip(LastSegment(Val(location))))
             ELSE location

\* The country of each row of the batch.
SvcCountries(conflict_data) ==
    [i \in 1..Len(conflict_data) |-> SvcCountry(conflict_data[i])]

\* `',' in None` and `0 + None` raise TypeError.
SvcRaises(event) ==
    \/ Get(event, "location", Some(Unknown)) = None
    \/ Get(event, "avg_tone", Some(0)) = None
    \/ Get(event, "goldstein_scale", Some(0)) = None

SvcScore(country, group, jitter, now) ==
    LET event_count   == Len(group)
        avg_tone_sum  == SumSeq([i \in 1..Len(group) |->
                                   Val(Get(group[i], "avg_tone", Some(0)))])
        goldstein_sum == SumSeq([i \in 1..Len(group) |->
                                   Val(Get(group[i], "goldstein_scale", Some(0)))])
        avg_tone      == avg_tone_sum \div event_count
        avg_goldstein == goldstein_sum \div event_count
        intl_score    == Score010(avg_tone)
        domestic_score == Score010(avg_goldstein)
        gscs          == (domestic_score + intl_score) \div 2
    IN  [country       |-> country,
         code          |-> get_country_code(Val(country)),
         srsD          |-> Round1(domestic_score),
         srsI          |-> Round1(intl_score),
         gscs          |-> Round1(gscs),
         sti           |-> StabilityIndex(gscs, jitter),
         category      |-> get_category(gscs),
         description   |-> generate_description(country, domestic_score, intl_score, gscs),
         event_count   |-> event_count,
         avg_tone      |-> Round2(avg_tone),
         avg_goldstein |-> Round2(avg_goldstein),
         updated_at    |-> now]

calculate_sgm_scores(conflict_data, jitter, now) ==
    IF \E i \in 1..Len(conflict_data) : SvcRaises(conflict_data[i]) THEN Raised
    ELSE LET keys == KeysInOrder(SvcCountries(conflict_data))
         IN  Returned([g \in 1..Len(keys) |->
                 SvcScore(keys[g], Selected(conflict_data, SvcCountries(conflict_data), keys[g]),
                          jitter[g], now)])

\* ------------------------------------------------- variants for the claims
\* The store with no document looked up: every upsert inserts.
FindOne_Never(coll, code) == 0

\* The upsert without its filter: the score is inserted.
UpdateOne_Insert(coll, score) == Append(coll, score)

\* ------------------------------------------------- the sgm_scores collection
\* The position of the first document matching {"code": code}, 0 if none.
FindOne(coll, code) ==
    LET hits == {i \in 1..Len(coll) : coll[i].code = code}
    IN  IF hits = {} THEN 0 ELSE CHOOSE i \in hits : \A j \in hits : i <= j

\* {"$set": update} applied to a document.
SetFields(doc, update) ==
    [f \in (DOMAIN doc) \cup (DOMAIN update) |->
        IF f \in DOMAIN update THEN update[f] ELSE doc[f]]

\* UpdateOne({"code": score["code"]}, {"$set": score}, upsert=True)
UpdateOne(coll, score) ==
    LET i == FindOne(coll, score.code)
    IN  IF i = 0 THEN Append(coll, score)
        ELSE [coll EXCEPT ![i] = SetFields(@, score)]

\* bulk_write(bulk_ops) carried through: the operations applied in order.
RECURSIVE BulkWrite(_, _)
BulkWrite(coll, scores) ==
    IF scores = <<>> THEN coll
    ELSE BulkWrite(UpdateOne(coll, Head(scores)), Tail(scores))

\* ------------------------------------------------------------------- state
VARIABLES
    sgm_collection,    \* routes module: TRUE when sgm_collection is a collection, FALSE when None
    mongo_client,      \* SGMService module: TRUE when mongo_client is a client, FALSE when None
    gdelt_importable,  \* whether `from core.gdelt_client import ...` succeeds
    store,             \* the documents of gdelt_db.sgm_scores, in insertion order
    SAMPLE_COUNTRIES,  \* the seed list of the routes module (a mutable list of dicts)
    analysis_jobs,     \* job id -> {status, progress, message}
    pc,                \* where each run is
    events,            \* the batch each run fetched
    results,           \* the scores each run computed
    next_op,           \* the bulk operation each run applies next
    outcome,           \* what each run returned: "none", "True", "False", "raised"
    clock,             \* datetime.now(), one tick per run
    resp               \* the answer of the latest read operation

\* The state of the clients of the outside services (core/gdelt_client.py).
VARIABLES
    fetch,             \* the call of fetch_with_retry under way: its arguments, its
                       \* position, the requests it has sent and what it returned
    fetch_jobs,        \* acled_routes: job id -> {status, progress, message}
    acled_task,        \* the background task of each ACLED fetch job
    acled_collection,  \* acled_client: None, or the documents of gdelt_db.acled_events
    acled_call         \* the call of fetch_and_store_acled under way

client_vars == <<fetch, fetch_jobs, acled_task, acled_collection, acled_call>>

\* The state of the score service.
score_vars == <<sgm_collection, mongo_client, gdelt_importable, store,
                SAMPLE_COUNTRIES, analysis_jobs, pc, events, results, next_op,
                outcome, clock>>

vars == <<sgm_collection, mongo_client, gdelt_importable, store, SAMPLE_COUNTRIES,
          analysis_jobs, pc, events, results, next_op, outcome, clock, resp, fetch,
          fetch_jobs, acled_task, acled_collection, acled_call>>

Jobs  == {<<"job", i>> : i \in 1..MaxJobs}
Svcs  == {<<"svc", i>> : i \in 1..MaxSvcRuns}
Procs == Jobs \cup Svcs

DetailFields == {"description", "event_count", "avg_tone"}

\* SAMPLE_COUNTRIES as written in the source (latitudes in 1/10000 degree).
SeedUS ==
    [code        |-> <<"U", "S">>,
     country     |-> Some(<<"U", "n", "i", "t", "e", "d", " ", "S", "t", "a", "t", "e", "s">>),
     srsD        |-> 42 * (Unit \div 10),
     srsI        |-> 67 * (Unit \div 10),
     gscs        |-> 52 * (Unit \div 10),
     sgm         |-> 52 * (Unit \div 10),
     latitude    |-> Some(370902),
     longitude   |-> Some(-957129),
     sti         |-> 45,
     category    |-> "Soft Supremacism",
     description |-> [template |-> "soft supremacism patterns",
                      country  |-> Some(<<"U", "n", "i", "t", "e", "d", " ", "S", "t", "a", "t", "e", "s">>)],
     event_count |-> 42,
     avg_tone    |-> -27 * (Unit \div 10),
     updated_at  |-> 0]

\* ------------------------------------------------------------------ inputs
France       == <<"F", "r", "a", "n", "c", "e">>
FrenchGuiana == <<"F", "r", "e", "n", "c", "h", " ", "G", "u", "i", "a", "n", "a">>
Kenya        == <<"K", "e", "n", "y", "a">>
ParisFrance  == <<"P", "a", "r", "i", "s", ",", " ", "F", "r", "a", "n", "c", "e">>

\* Events as fetch_gdelt_data / fetch_gdelt_events hand them to
\* process_gdelt_data.
GdeltEventPool ==
    { \* a BigQuery row of a mapped country
      [country |-> Some(France), avg_tone |-> Some(-4 * Unit),
       goldstein_scale |-> Some(-6 * Unit),
       latitude |-> Some(460000), longitude |-> Some(20000)],
      \* a DOC API article: no Goldstein value, tone absent
      [country |-> Some(FrenchGuiana), avg_tone |-> None,
       goldstein_scale |-> None,
       latitude |-> Some(40000), longitude |-> Some(-530000)],
      \* a stored event that carries its own country_code, as received
      [country |-> Some(Kenya), country_code |-> Some(<<"k", "e">>),
       avg_tone |-> Some(2 * Unit), goldstein_scale |-> Some(4 * Unit),
       latitude |-> Some(10000), longitude |-> Some(380000)],
      \* a BigQuery row whose country code is NULL: get_country_name(None) is None
      [country |-> None, avg_tone |-> Some(-2 * Unit),
       goldstein_scale |-> Some(-2 * Unit),
       latitude |-> Some(0), longitude |-> Some(0)],
      \* an event with neither country nor country_code
      [avg_tone |-> Some(-2 * Unit), goldstein_scale |-> Some(-2 * Unit),
       latitude |-> Some(0), longitude |-> Some(0)] }

\* Rows as SGMService.fetch_conflict_data returns them.
SvcEventPool ==
    { [location |-> Some(ParisFrance), avg_tone |-> Some(-2 * Unit),
       goldstein_scale |-> Some(-2 * Unit)],
      [location |-> None, avg_tone |-> Some(-2 * Unit),
       goldstein_scale |-> Some(-2 * Unit)],
      [location |-> Some(Kenya), avg_tone |-> None,
       goldstein_scale |-> Some(Unit)],
      [avg_tone |-> Some(0), goldstein_scale |-> Some(0)] }

Batches(pool) == UNION {[1..n -> pool] : n \in 0..MaxEvents}

\* The jitter values the runs of Spec draw.
RunJitters == {JitterMin, JitterMax}

\* Requests of the read operations.
CodeRequests == {<<"u", "s">>, <<"k", "e">>, <<"K", "E">>, <<"F", "R">>}
LimitRequests == 0..2

NoResp ==
    [op |-> "none", limit |-> 0, include_details |-> TRUE, code |-> <<>>,
     job |-> 0, tried_store |-> FALSE, read_failed |-> FALSE, raised |-> FALSE,
     source |-> "none", rows |-> <<>>, row |-> None, status |-> "", message |-> ""]

\* acled_client before its import: no collection, no call.
NoCall ==
    [pc |-> "unloaded", call |-> 0, days_back |-> 0, api_key |-> FALSE,
     fetched |-> None, before |-> <<>>, result |-> "none", failed_at |-> "none"]

\* No call of fetch_with_retry yet.
NoFetch ==
    [pc |-> "idle", max_retries |-> 0, base_wait |-> 0, attempt |-> 0,
     now |-> 0, sent |-> <<>>, result |-> None]

Init ==
    /\ sgm_collection \in BOOLEAN
    /\ mongo_client \in BOOLEAN
    /\ gdelt_importable \in BOOLEAN
    /\ store = <<>>
    /\ SAMPLE_COUNTRIES = <<SeedUS>>
    /\ analysis_jobs = <<>>
    /\ pc = [p \in Procs |-> "idle"]
    /\ events = [p \in Procs |-> <<>>]
    /\ results = [p \in Procs |-> <<>>]
    /\ next_op = [p \in Procs |-> 0]
    /\ outcome = [p \in Procs |-> "none"]
    /\ clock = 0
    /\ resp = NoResp
    /\ fetch = NoFetch
    /\ fetch_jobs = <<>>
    /\ acled_task = [job_id \in 1..MaxAcledJobs |-> [pc |-> "idle", success |-> "none"]]
    /\ acled_collection = None
    /\ acled_call = NoCall

\* ------------------------------------------------------------ the job layer
\* trigger_analysis: a fresh job id, the job registered as started, the
\* background task queued.
TriggerAnalysis ==
    /\ Len(analysis_jobs) < MaxJobs
    /\ LET job_id == Len(analysis_jobs) + 1
       IN  /\ analysis_jobs' = Append(analysis_jobs,
                                      [status   |-> "started",
                                       progress |-> 0,
                                       message  |-> "Analysis started"])
           /\ pc' = [pc EXCEPT ![<<"job", job_id>>] = "queued"]
    /\ UNCHANGED client_vars
    /\ UNCHANGED <<sgm_collection, mongo_client, gdelt_importable, store,
                   SAMPLE_COUNTRIES, events, results, next_op, outcome, clock,
                   resp>>

\* What run_analysis_task records once run_sgm_analysis() has ended: the
\* returned value is not looked at; only an exception marks the job failed.
TaskStatus(run_outcome) ==
    IF run_outcome = "raised"
    THEN [status |-> "failed", progress |-> 0, message |-> "Analysis failed"]
    ELSE [status |-> "completed", progress |-> 1,
          message |-> "Analysis completed successfully"]

\* A run that stores each score as soon as it is computed, so that a batch
\* that fails part-way has already reached the store.
RunSgmAnalysis_StoresAsItScores(p, fetched, jitter) ==
    /\ p \in Jobs
    /\ pc[p] = "queued"
    /\ gdelt_importable
    /\ clock' = clock + 1
    /\ events' = [events EXCEPT ![p] = fetched]
    /\ LET r     == process_gdelt_data(fetched, jitter, clock + 1)
           sound == SelectSeq(fetched, LAMBDA e : ~GdeltRaises(e))
           early == process_gdelt_data(sound, jitter, clock + 1).scores
       IN  /\ store' = IF sgm_collection THEN BulkWrite(store, early) ELSE store
           /\ results' = [results EXCEPT ![p] = r.scores]
           /\ outcome' = [outcome EXCEPT ![p] = IF r.raised THEN "False" ELSE "True"]
    /\ pc' = [pc EXCEPT ![p] = "returned"]
    /\ UNCHANGED client_vars
    /\ UNCHANGED <<sgm_collection, mongo_client, gdelt_importable,
                   SAMPLE_COUNTRIES, analysis_jobs, next_op, resp>>

\* The run of a queued job up to its first store operation.
\* run_sgm_analysis (routes): fetch, process, then the bulk upsert; every
\* exception is caught and turned into False.
RunSgmAnalysis(p, fetched, jitter) ==
    /\ p \in Jobs
    /\ pc[p] = "queued"
    /\ gdelt_importable
    /\ clock' = clock + 1
    /\ events' = [events EXCEPT ![p] = fetched]
    /\ LET r == process_gdelt_data(fetched, jitter, clock + 1)
       IN  IF r.raised
           THEN /\ outcome' = [outcome EXCEPT ![p] = "False"]
                /\ pc' = [pc EXCEPT ![p] = "returned"]
                /\ UNCHANGED <<results, next_op>>
           ELSE /\ results' = [results EXCEPT ![p] = r.scores]
                /\ IF sgm_collection /\ r.scores # <<>>
                   THEN /\ pc' = [pc EXCEPT ![p] = "writing"]
                        /\ next_op' = [next_op EXCEPT ![p] = 1]
                        /\ UNCHANGED outcome
                   ELSE /\ pc' = [pc EXCEPT ![p] = "returned"]
                        /\ outcome' = [outcome EXCEPT ![p] = "True"]
                        /\ UNCHANGED next_op
    /\ UNCHANGED client_vars
    /\ UNCHANGED <<sgm_collection, mongo_client, gdelt_importable, store,
                   SAMPLE_COUNTRIES, analysis_jobs, resp>>

\* run_sgm_analysis (routes) when core.gdelt_client cannot be imported: the
\* seed records, copied and re-stamped, are upserted one by one.
RunSgmAnalysisSample(p) ==
    /\ p \in Jobs
    /\ pc[p] = "queued"
    /\ ~gdelt_importable
    /\ clock' = clock + 1
    /\ results' = [results EXCEPT ![p] =
                      [i \in 1..Len(SAMPLE_COUNTRIES) |->
                          SetFields(SAMPLE_COUNTRIES[i],
                                    [updated_at |-> clock + 1])]]
    /\ IF sgm_collection /\ SAMPLE_COUNTRIES # <<>>
       THEN /\ pc' = [pc EXCEPT ![p] = "writing"]
            /\ next_op' = [next_op EXCEPT ![p] = 1]
            /\ UNCHANGED outcome
       ELSE /\ pc' = [pc EXCEPT ![p] = "returned"]
            /\ outcome' = [outcome EXCEPT ![p] = "True"]
            /\ UNCHANGED next_op
    /\ UNCHANGED client_vars
    /\ UNCHANGED <<sgm_collection, mongo_client, gdelt_importable, store,
                   SAMPLE_COUNTRIES, analysis_jobs, events, resp>>

\* SGMService.run_sgm_analysis up to its first store operation: nothing is
\* caught around calculate_sgm_scores.
SvcRunSgmAnalysis(p, conflict_data, jitter) ==
    /\ p \in Svcs
    /\ pc[p] = "idle"
    /\ clock' = clock + 1
    /\ events' = [events EXCEPT ![p] = conflict_data]
    /\ LET r == calculate_sgm_scores(conflict_data, jitter, clock + 1)
       IN  IF conflict_data = <<>>
           THEN /\ outcome' = [outcome EXCEPT ![p] = "False"]
                /\ pc' = [pc EXCEPT ![p] = "returned"]
                /\ UNCHANGED <<results, next_op>>
           ELSE IF r.raised
           THEN /\ outcome' = [outcome EXCEPT ![p] = "raised"]
                /\ pc' = [pc EXCEPT ![p] = "returned"]
                /\ UNCHANGED <<results, next_op>>
           ELSE /\ results' = [results EXCEPT ![p] = r.scores]
                /\ IF r.scores # <<>> /\ mongo_client
                   THEN /\ pc' = [pc EXCEPT ![p] = "writing"]
                        /\ next_op' = [next_op EXCEPT ![p] = 1]
                        /\ UNCHANGED outcome
                   ELSE /\ pc' = [pc EXCEPT ![p] = "returned"]
                        /\ outcome' = [outcome EXCEPT ![p] = "False"]
                        /\ UNCHANGED next_op
    /\ UNCHANGED client_vars
    /\ UNCHANGED <<sgm_collection, mongo_client, gdelt_importable, store,
                   SAMPLE_COUNTRIES, analysis_jobs, resp>>

\* One operation of the bulk write reaches the collection.  The server
\* applies the operations of a bulk write one at a time; each is atomic on
\* its document, the bulk write as a whole is not.
WriteOp(p) ==
    /\ pc[p] = "writing"
    /\ LET score == results[p][next_op[p]]
       IN  store' = UpdateOne(store, score)
    /\ IF next_op[p] = Len(results[p])
       THEN /\ pc' = [pc EXCEPT ![p] = "returned"]
            /\ outcome' = [outcome EXCEPT ![p] = "True"]
            /\ UNCHANGED next_op
       ELSE /\ next_op' = [next_op EXCEPT ![p] = @ + 1]
            /\ UNCHANGED <<pc, outcome>>
    /\ UNCHANGED client_vars
    /\ UNCHANGED <<sgm_collection, mongo_client, gdelt_importable,
                   SAMPLE_COUNTRIES, analysis_jobs, events, results, clock, resp>>

\* The store call raises (the server is gone, the request is refused): the
\* operations already applied stay, the exception is caught, False returned.
WriteFail(p) ==
    /\ pc[p] = "writing"
    /\ pc' = [pc EXCEPT ![p] = "returned"]
    /\ outcome' = [outcome EXCEPT ![p] = "False"]
    /\ UNCHANGED client_vars
    /\ UNCHANGED <<sgm_collection, mongo_client, gdelt_importable, store,
                   SAMPLE_COUNTRIES, analysis_jobs, events, results, next_op,
                   clock, resp>>

\* run_analysis_task after run_sgm_analysis() has ended; the locals of the
\* run are gone.
RunAnalysisTaskEnd(p) ==
    /\ p \in Jobs
    /\ pc[p] = "returned"
    /\ analysis_jobs' = [analysis_jobs EXCEPT ![p[2]] = TaskStatus(outcome[p])]
    /\ pc' = [pc EXCEPT ![p] = "done"]
    /\ events' = [events EXCEPT ![p] = <<>>]
    /\ results' = [results EXCEPT ![p] = <<>>]
    /\ next_op' = [next_op EXCEPT ![p] = 0]
    /\ UNCHANGED client_vars
    /\ UNCHANGED <<sgm_collection, mongo_client, gdelt_importable, store,
                   SAMPLE_COUNTRIES, outcome, clock, resp>>

\* The script of sgm_data_service.py ends after service.run_sgm_analysis().
SvcExit(p) ==
    /\ p \in Svcs
    /\ pc[p] = "returned"
    /\ pc' = [pc EXCEPT ![p] = "done"]
    /\ events' = [events EXCEPT ![p] = <<>>]
    /\ results' = [results EXCEPT ![p] = <<>>]
    /\ next_op' = [next_op EXCEPT ![p] = 0]
    /\ UNCHANGED client_vars
    /\ UNCHANGED <<sgm_collection, mongo_client, gdelt_importable, store,
                   SAMPLE_COUNTRIES, analysis_jobs, outcome, clock, resp>>

\* get_analysis_status
AnalysisStatus(jobs, job_id) ==
    IF job_id \in DOMAIN jobs
    THEN [NoResp EXCEPT !.op = "get_analysis_status", !.job = job_id,
                        !.status = jobs[job_id].status,
                        !.message = jobs[job_id].message]
    ELSE [NoResp EXCEPT !.op = "get_analysis_status", !.job = job_id,
                        !.status = "404"]

GetAnalysisStatus(job_id) ==
    /\ resp' = AnalysisStatus(analysis_jobs, job_id)
    /\ UNCHANGED client_vars
    /\ UNCHANGED <<sgm_collection, mongo_client, gdelt_importable, store,
                   SAMPLE_COUNTRIES, analysis_jobs, pc, events, results,
                   next_op, outcome, clock>>

\* --------------------------------------------------------- read operations
\* find({}, projection).limit(limit): a limit of 0 is no limit.
FindLimit(coll, limit) ==
    IF limit = 0 THEN coll ELSE SubSeq(coll, 1, Min(limit, Len(coll)))

\* A dict without the given keys: the projection {"description": 0, ...} on
\* a fetched document, dict.pop(key, None) on a seed record.
Without(doc, keys) == [f \in (DOMAIN doc) \ keys |-> doc[f]]

\* The read whose store call is not guarded: only a missing collection
\* leads to the seed list.
FallsBack_Unguarded(read_fails) == ~sgm_collection

\* Whether the read is answered from the seed list: the collection is None,
\* or the store call raised and the exception was logged.
FallsBack(read_fails) == ~sgm_collection \/ read_fails

\* SAMPLE_COUNTRIES after get_country_sgm_data: sample_data[:limit] is a new
\* list of the same dicts, so the pops reach the seed records themselves.
SampleAfterSgmData(limit, include_details, read_fails) ==
    IF FallsBack(read_fails) /\ ~include_details
    THEN [i \in 1..Len(SAMPLE_COUNTRIES) |->
            IF i <= limit THEN Without(SAMPLE_COUNTRIES[i], DetailFields)
            ELSE SAMPLE_COUNTRIES[i]]
    ELSE SAMPLE_COUNTRIES

\* get_country_sgm_data(limit, include_details)
SgmDataAnswer(limit, include_details, read_fails) ==
    LET base == [NoResp EXCEPT !.op = "get_country_sgm_data",
                               !.limit = limit,
                               !.include_details = include_details,
                               !.tried_store = sgm_collection,
                               !.read_failed = read_fails]
    IN  IF ~FallsBack(read_fails)
        THEN LET found == FindLimit(store, limit)
             IN  [base EXCEPT !.source = "store",
                              !.rows = [i \in 1..Len(found) |->
                                          IF include_details THEN found[i]
                                          ELSE Without(found[i], DetailFields)]]
        ELSE LET after == SampleAfterSgmData(limit, include_details, read_fails)
             IN  [base EXCEPT !.source = "seed",
                              !.rows = SubSeq(after, 1, Min(limit, Len(after)))]

GetCountrySgmData(limit, include_details, read_fails) ==
    /\ read_fails => sgm_collection
    /\ resp' = SgmDataAnswer(limit, include_details, read_fails)
    /\ SAMPLE_COUNTRIES' = SampleAfterSgmData(limit, include_details, read_fails)
    /\ UNCHANGED client_vars
    /\ UNCHANGED <<sgm_collection, mongo_client, gdelt_importable, store,
                   analysis_jobs, pc, events, results, next_op, outcome, clock>>

\* The first seed record whose code matches, both sides upper-cased.
SeedMatch(country_code) ==
    LET hits == {i \in 1..Len(SAMPLE_COUNTRIES) :
                    Upper(SAMPLE_COUNTRIES[i].code) = Upper(country_code)}
    IN  IF hits = {} THEN 0 ELSE CHOOSE i \in hits : \A j \in hits : i <= j

\* get_country_detail(country_code)
DetailAnswer(country_code, read_fails) ==
    LET base == [NoResp EXCEPT !.op = "get_country_detail",
                               !.code = country_code,
                               !.tried_store = sgm_collection,
                               !.read_failed = read_fails]
        found == FindOne(store, Upper(country_code))
        seed  == SeedMatch(country_code)
    IN  IF ~FallsBack(read_fails) /\ found # 0
        THEN [base EXCEPT !.source = "store", !.row = Some(store[found])]
        ELSE IF seed # 0
        THEN [base EXCEPT !.source = "seed", !.row = Some(SAMPLE_COUNTRIES[seed])]
        ELSE base

GetCountryDetail(country_code, read_fails) ==
    /\ read_fails => sgm_collection
    /\ resp' = DetailAnswer(country_code, read_fails)
    /\ UNCHANGED client_vars
    /\ UNCHANGED <<sgm_collection, mongo_client, gdelt_importable, store,
                   SAMPLE_COUNTRIES, analysis_jobs, pc, events, results,
                   next_op, outcome, clock>>

\* ----------------------------------------------------------- specification
JittersFor(n) == [1..n -> RunJitters]

\* A queued job's background task starts.
StartJob(p, gdelt_pool) ==
    \/ /\ p \in Jobs /\ pc[p] = "queued" /\ gdelt_importable
       /\ \E fetched \in Batches(gdelt_pool) :
            \E jitter \in JittersFor(Len(KeysInOrder(GdeltCountries(fetched)))) :
               RunSgmAnalysis(p, fetched, jitter)
    \/ RunSgmAnalysisSample(p)

\* The service's script starts.
StartSvc(p, svc_pool) ==
    /\ p \in Svcs /\ pc[p] = "idle"
    /\ \E conflict_data \in Batches(svc_pool) :
         \E jitter \in JittersFor(Len(KeysInOrder(SvcCountries(conflict_data)))) :
            SvcRunSgmAnalysis(p, conflict_data, jitter)

StartRun(p, gdelt_pool, svc_pool) ==
    \/ StartJob(p, gdelt_pool)
    \/ StartSvc(p, svc_pool)

\* A started job goes on.
JobProgress ==
    \/ \E p \in Jobs : WriteOp(p)
    \/ \E p \in Jobs : WriteFail(p)
    \/ \E p \in Jobs : RunAnalysisTaskEnd(p)

\* A started run, of either variant, goes on.
Progress ==
    \/ \E p \in Procs : WriteOp(p)
    \/ \E p \in Procs : WriteFail(p)
    \/ \E p \in Jobs : RunAnalysisTaskEnd(p)
    \/ \E p \in Svcs : SvcExit(p)

Reads ==
    \/ \E limit \in LimitRequests, include_details \in BOOLEAN, read_fails \in BOOLEAN :
         GetCountrySgmData(limit, include_details, read_fails)
    \/ \E country_code \in CodeRequests, read_fails \in BOOLEAN :
         GetCountryDetail(country_code, read_fails)

\* No run is under way: every run is still to start or has ended.
Quiet == \A p \in Procs : pc[p] \in {"idle", "done"}

\* No run has started or been asked for.
Fresh == \A p \in Procs : pc[p] = "idle"

\* The pools of the specifications that follow the store through several
\* runs and through reads.
GdeltStorePool == {e \in GdeltEventPool :
                     "country" \in DOMAIN e /\ e.country # None}
SvcStorePool == {e \in SvcEventPool :
                     "location" \in DOMAIN e /\ e.location = Some(ParisFrance)}

\* Spec: the jobs of the route layer run as the server schedules them, with
\* no mutual exclusion: each background task runs on a worker thread.
Next ==
    \/ TriggerAnalysis
    \/ \E p \in Jobs : StartJob(p, GdeltStorePool)
    \/ JobProgress

Spec == Init /\ [][Next]_vars

\* SpecSerial: runs of both variants, one after the other.
NextSerial ==
    \/ Quiet /\ TriggerAnalysis
    \/ \E p \in Procs :
         /\ \A q \in Procs \ {p} : pc[q] \in {"idle", "done"}
         /\ StartRun(p, GdeltStorePool, SvcStorePool)
    \/ Progress

SpecSerial == Init /\ [][NextSerial]_vars

\* SpecRun: one scoring run, of either variant, on any batch of the pools,
\* and the status of its job.
NextRun ==
    \/ Fresh /\ TriggerAnalysis
    \/ \E p \in Procs :
         /\ \A q \in Procs \ {p} : pc[q] = "idle"
         /\ StartRun(p, GdeltEventPool, SvcEventPool)
    \/ Progress
    \/ \E job_id \in 1..(MaxJobs + 1) : GetAnalysisStatus(job_id)

SpecRun == Init /\ [][NextRun]_vars

\* SpecReads: the read operations, before, during and after one scoring run.
NextReads ==
    \/ Fresh /\ TriggerAnalysis
    \/ \E p \in Procs :
         /\ \A q \in Procs \ {p} : pc[q] = "idle"
         /\ StartRun(p, GdeltStorePool, SvcStorePool)
    \/ Progress
    \/ Reads

SpecReads == Init /\ [][NextReads]_vars

\* The pools of SpecAbandon: a sound event and one that makes the
\* aggregation raise, for each variant.
GdeltFailPool == {e \in GdeltEventPool :
                     "country" \in DOMAIN e /\ e.country \in {Some(France), None}}
SvcFailPool == {e \in SvcEventPool :
                     "location" \in DOMAIN e /\ e.location \in {Some(ParisFrance), None}}

\* SpecAbandon: runs of both variants, one after the other, some of which
\* fail while they aggregate.
NextAbandon ==
    \/ Quiet /\ TriggerAnalysis
    \/ \E p \in Procs :
         /\ \A q \in Procs \ {p} : pc[q] \in {"idle", "done"}
         /\ StartRun(p, GdeltFailPool, SvcFailPool)
    \/ Progress

SpecAbandon == Init /\ [][NextAbandon]_vars

\* The tone and Goldstein values of SpecScore, in 1/Unit parts: the pair of
\* the end-to-end scenario, values beyond both clamps, values whose scores
\* fall between two tenths, and a tone with two decimals.
ScoreValues ==
    { <<-4 * Unit, -6 * Unit>>,
      <<-2 * Unit, -2 * Unit>>,
      <<-12 * Unit, 12 * Unit>>,
      <<-12 * Unit, Unit \div 10>>,
      <<12 * Unit, 12 * Unit>>,
      <<(592 * Unit) \div 100, (592 * Unit) \div 100>>,
      <<Unit \div 10, Unit \div 10>>,
      <<(-401 * Unit) \div 100, -2 * Unit>> }

\* Events of France with those values, and the article of French Guiana
\* that carries neither value.
GdeltScorePool ==
    { [country |-> Some(France), avg_tone |-> Some(v[1]),
       goldstein_scale |-> Some(v[2]),
       latitude |-> Some(460000), longitude |-> Some(20000)] : v \in ScoreValues }
    \cup {e \in GdeltEventPool : "country" \in DOMAIN e /\ e.country = Some(FrenchGuiana)}

\* Rows of the service with those values, and one of French Guiana.
SvcScorePool ==
    { [location |-> Some(ParisFrance), avg_tone |-> Some(v[1]),
       goldstein_scale |-> Some(v[2])] : v \in ScoreValues }
    \cup { [location |-> Some(FrenchGuiana), avg_tone |-> Some(0),
            goldstein_scale |-> Some(0)] }

\* SpecScore: one scoring run, of either variant, over batches of events
\* with those values.
NextScore ==
    \/ Fresh /\ TriggerAnalysis
    \/ \E p \in Procs :
         /\ \A q \in Procs \ {p} : pc[q] = "idle"
         /\ StartRun(p, GdeltScorePool, SvcScorePool)
    \/ Progress

SpecScore == Init /\ [][NextScore]_vars

\* Events and rows for the resolution of the code: a name that contains a
\* table name in another case, a name the table does not have, with and
\* without a code of its own, an empty code, and no name at all.
WestGermany  == <<"W", "E", "S", "T", " ", "g", "e", "r", "m", "a", "n", "y">>
BerlinGermany == <<"B", "e", "r", "l", "i", "n", ",", " ", "G", "e", "r", "m", "a", "n", "y">>

GdeltCodePool ==
    { [country |-> Some(WestGermany), avg_tone |-> Some(-2 * Unit),
       goldstein_scale |-> Some(-2 * Unit),
       latitude |-> Some(510000), longitude |-> Some(90000)],
      [country |-> Some(WestGermany), country_code |-> Some(<<>>),
       avg_tone |-> Some(0), goldstein_scale |-> Some(0),
       latitude |-> Some(525200), longitude |-> Some(134050)],
      [country |-> Some(Kenya), country_code |-> Some(<<"k", "e">>),
       avg_tone |-> Some(2 * Unit), goldstein_scale |-> Some(4 * Unit),
       latitude |-> Some(10000), longitude |-> Some(380000)],
      [country |-> Some(Kenya), avg_tone |-> Some(0), goldstein_scale |-> Some(0)],
      [avg_tone |-> Some(0), goldstein_scale |-> Some(0),
       latitude |-> None, longitude |-> None] }

SvcCodePool ==
    { [location |-> Some(BerlinGermany), avg_tone |-> Some(-2 * Unit),
       goldstein_scale |-> Some(-2 * Unit)],
      [location |-> Some(WestGermany), avg_tone |-> Some(0),
       goldstein_scale |-> Some(0)],
      [location |-> Some(Kenya), avg_tone |-> Some(0), goldstein_scale |-> Some(0)],
      [avg_tone |-> Some(0), goldstein_scale |-> Some(0)] }

\* SpecCode: one scoring run, of either variant, over those events.
NextCode ==
    \/ Fresh /\ TriggerAnalysis
    \/ \E p \in Procs :
         /\ \A q \in Procs \ {p} : pc[q] = "idle"
         /\ StartRun(p, GdeltCodePool, SvcCodePool)
    \/ Progress

SpecCode == Init /\ [][NextCode]_vars

\* --------------------------------------------------------- ACLED intensity
\* event_type_map of calculate_intensity
event_type_map ==
    [t \in {"Violence against civilians", "Battle", "Explosion/Remote violence",
            "Riots", "Protests", "Strategic development"} |->
        CASE t = "Violence against civilians" -> 2
          [] t = "Battle" -> 3
          [] t = "Explosion/Remote violence" -> 3
          [] t = "Riots" -> 1
          [] t = "Protests" -> 0
          [] t = "Strategic development" -> -1]

\* calculate_intensity (api_routes/acled_routes.py), for events whose
\* fatalities are a number, None or absent.
calculate_intensity(event) ==
    LET base_intensity == 5
        event_type == Val(Get(event, "event_type", Some("")))
        type_adjustment == IF event_type \in DOMAIN event_type_map
                           THEN event_type_map[event_type] ELSE 0
        fatalities == OrZero(Get(event, "fatalities", Some(0)))
        fatality_adjustment == IF fatalities > 0 THEN Min(3, fatalities \div 5) ELSE 0
    IN  Max(0, Min(10, base_intensity + type_adjustment + fatality_adjustment))

\* The intensity _process_events_for_heatmap gives, in 1/Unit parts:
\* min(10, 3 + fatalities * 0.7) when the event has fatalities, else 5.
HeatmapIntensity(event) ==
    IF "fatalities" \in DOMAIN event
    THEN Min(10 * Unit, 3 * Unit + (Val(event.fatalities) * 7 * Unit) \div 10)
    ELSE 5 * Unit

\* int(None) raises TypeError.
HeatmapRaises(event) == "fatalities" \in DOMAIN event /\ event.fatalities = None

\* ACLED events as stored: a type of the table, another type or none, and
\* fatalities that are a count, null or absent.
AcledTypes == (DOMAIN event_type_map) \cup {"Other"}
AcledFatalities == {0, 4, 5, 12, 20}
AcledEventPool ==
    {[event_type |-> Some(t), fatalities |-> Some(f)] : t \in AcledTypes, f \in AcledFatalities}
    \cup {[event_type |-> Some(t), fatalities |-> None] : t \in AcledTypes}
    \cup {[event_type |-> Some(t)] : t \in AcledTypes}
    \cup {[fatalities |-> Some(f)] : f \in AcledFatalities}

\* get_acled_events, for one stored event: the transformed event.
GetAcledEvents(event) ==
    /\ resp' = [NoResp EXCEPT
                  !.op = "get_acled_events",
                  !.rows = << [event_type |-> Val(Get(event, "event_type", Some("Unknown"))),
                               fatalities |-> Get(event, "fatalities", None),
                               intensity  |->
                                   LET given == Get(event, "intensity", None)
                                   IN  IF given # None /\ Val(given) # 0
                                       THEN Val(given) * Unit
                                       ELSE calculate_intensity(event) * Unit] >>]
    /\ UNCHANGED client_vars
    /\ UNCHANGED <<sgm_collection, mongo_client, gdelt_importable, store,
                   SAMPLE_COUNTRIES, analysis_jobs, pc, events, results,
                   next_op, outcome, clock>>

\* get_acled_data_for_heatmap, for one stored event: the processed event,
\* or the empty list when the processing raises.
GetAcledDataForHeatmap(event) ==
    /\ resp' = IF HeatmapRaises(event)
               THEN [NoResp EXCEPT !.op = "get_acled_data_for_heatmap"]
               ELSE [NoResp EXCEPT
                       !.op = "get_acled_data_for_heatmap",
                       !.rows = << [event_type |-> Val(Get(event, "event_type", Some("Unknown"))),
                                    fatalities |-> Get(event, "fatalities", None),
                                    intensity  |-> HeatmapIntensity(event)] >>]
    /\ UNCHANGED client_vars
    /\ UNCHANGED <<sgm_collection, mongo_client, gdelt_importable, store,
                   SAMPLE_COUNTRIES, analysis_jobs, pc, events, results,
                   next_op, outcome, clock>>

\* SpecIntensity: the two places that give an ACLED event its intensity.
NextIntensity ==
    \/ \E event \in AcledEventPool : GetAcledEvents(event)
    \/ \E event \in AcledEventPool : GetAcledDataForHeatmap(event)

SpecIntensity == Init /\ [][NextIntensity]_vars

\* ------------------------------------------------------- fetch_with_retry
MaxRetries == 3
BaseWaits == {1, 10}

\* 2 ** attempt
RECURSIVE Pow2(_)
Pow2(n) == IF n = 0 THEN 1 ELSE 2 * Pow2(n - 1)

\* Variant for the claims: the same wait after every attempt.
Backoff_Flat(base_wait, attempt) == base_wait

\* base_wait * (2 ** attempt)
Backoff(base_wait, attempt) == base_wait * Pow2(attempt)

\* Variant for the claims: one attempt more than asked.
InRange_OneMore(attempt, max_retries) == attempt <= max_retries

\* for attempt in range(max_retries)
InRange(attempt, max_retries) == attempt < max_retries

\* What a request can end in: a status with a body that is JSON or not, or
\* an exception of requests.get (timeout, connection error).
Responses ==
    { [status |-> 200, json |-> TRUE], [status |-> 200, json |-> FALSE],
      [status |-> 429, json |-> FALSE], [status |-> 500, json |-> FALSE],
      [status |-> 0, json |-> FALSE] }

\* random.uniform(0, 1), in seconds: its two ends.
RateJitters == {0, 1}

\* fetch_with_retry(url, params, max_retries, base_wait) is called.  With
\* max_retries = 0 the loop has no turn and None is returned.
FetchWithRetry(max_retries, base_wait) ==
    /\ fetch.pc = "idle"
    /\ fetch' = [NoFetch EXCEPT !.pc = IF InRange(0, max_retries) THEN "loop" ELSE "returned",
                                !.max_retries = max_retries,
                                !.base_wait = base_wait]
    /\ UNCHANGED <<fetch_jobs, acled_task, acled_collection, acled_call>>
    /\ UNCHANGED score_vars
    /\ UNCHANGED resp

\* One turn of the loop: the request and what follows it.  The body of the
\* n-th request is written n.  response.json() is inside the try: a body
\* that is not JSON raises and is handled as a failed request.
Attempt(response, jitter) ==
    /\ fetch.pc = "loop"
    /\ LET n == Len(fetch.sent) + 1
           request == [status |-> response.status, json |-> response.json,
                       body |-> n, at |-> fetch.now, attempt |-> fetch.attempt]
           sent == Append(fetch.sent, request)
           wait == IF response.status = 429
                   THEN Backoff(fetch.base_wait, fetch.attempt) + jitter
                   ELSE Backoff(fetch.base_wait, fetch.attempt)
           again == InRange(fetch.attempt + 1, fetch.max_retries)
       IN  IF response.status = 200 /\ response.json
           THEN fetch' = [fetch EXCEPT !.sent = sent, !.pc = "returned",
                                       !.result = Some(n)]
           ELSE IF response.status \in {0, 200, 429}
           THEN fetch' = [fetch EXCEPT !.sent = sent,
                                       !.now = fetch.now + wait,
                                       !.attempt = fetch.attempt + 1,
                                       !.pc = IF again THEN "loop" ELSE "returned"]
           ELSE fetch' = [fetch EXCEPT !.sent = sent, !.pc = "returned"]
    /\ UNCHANGED <<fetch_jobs, acled_task, acled_collection, acled_call>>
    /\ UNCHANGED score_vars
    /\ UNCHANGED resp

\* SpecFetch: calls of fetch_with_retry, under every sequence of responses.
NextFetch ==
    \/ \E max_retries \in 0..MaxRetries, base_wait \in BaseWaits :
         FetchWithRetry(max_retries, base_wait)
    \/ \E response \in Responses, jitter \in RateJitters : Attempt(response, jitter)

SpecFetch == Init /\ [][NextFetch]_vars

\* -------------------------------------------------------- ACLED fetch jobs
\* What fetch_acled_data does for the task: it returns a true value, a false
\* one, or raises.  (The placeholder the routes fall back to returns True.)
FetchOutcomes == {"True", "False", "raised"}

\* Variant for the claims: the job is completed whatever the fetch did.
FetchJobRecord_Completed(success) ==
    [status |-> "completed", progress |-> Unit, message |-> "Successfully fetched ACLED data"]

\* The record run_acled_fetch_task leaves for the job.
FetchJobRecord(success) ==
    IF success = "True"
    THEN [status |-> "completed", progress |-> Unit,
          message |-> "Successfully fetched ACLED data"]
    ELSE IF success = "False"
    THEN [status |-> "failed", progress |-> 0, message |-> "Failed to fetch ACLED data"]
    ELSE [status |-> "failed", progress |-> 0, message |-> "ACLED fetch failed"]

\* trigger_acled_fetch: a fresh job id (uuid4), the job registered as
\* started, the background task queued.
TriggerAcledFetch ==
    /\ Len(fetch_jobs) < MaxAcledJobs
    /\ LET job_id == Len(fetch_jobs) + 1
       IN  /\ fetch_jobs' = Append(fetch_jobs,
                                   [status |-> "started", progress |-> 0,
                                    message |-> "ACLED fetch started"])
           /\ acled_task' = [acled_task EXCEPT ![job_id].pc = "queued"]
           /\ resp' = [NoResp EXCEPT !.op = "trigger_acled_fetch", !.job = job_id,
                                     !.status = "started",
                                     !.message = "Fetching ACLED data"]
    /\ UNCHANGED <<fetch, acled_collection, acled_call>>
    /\ UNCHANGED score_vars

\* run_acled_fetch_task, up to the call of fetch_acled_data.
RunAcledFetchTaskBegin(job_id) ==
    /\ acled_task[job_id].pc = "queued"
    /\ fetch_jobs' = [fetch_jobs EXCEPT ![job_id] =
                         [status |-> "in_progress", progress |-> Unit \div 10,
                          message |-> "Starting ACLED data fetch"]]
    /\ acled_task' = [acled_task EXCEPT ![job_id].pc = "running"]
    /\ UNCHANGED <<fetch, acled_collection, acled_call, resp>>
    /\ UNCHANGED score_vars

\* run_acled_fetch_task, from the return of fetch_acled_data to its end.
RunAcledFetchTaskEnd(job_id, success) ==
    /\ acled_task[job_id].pc = "running"
    /\ fetch_jobs' = [fetch_jobs EXCEPT ![job_id] = FetchJobRecord(success)]
    /\ acled_task' = [acled_task EXCEPT ![job_id] = [pc |-> "done", success |-> success]]
    /\ UNCHANGED <<fetch, acled_collection, acled_call, resp>>
    /\ UNCHANGED score_vars

\* get_acled_status(job_id): the record of the job, and a made-up
\* 'completed' for an id that fetch_jobs does not have.
GetAcledStatus(job_id) ==
    /\ resp' = IF job_id \notin DOMAIN fetch_jobs
               THEN [NoResp EXCEPT !.op = "get_acled_status", !.job = job_id,
                                   !.status = "completed",
                                   !.message = "ACLED fetch completed successfully (simulated)"]
               ELSE [NoResp EXCEPT !.op = "get_acled_status", !.job = job_id,
                                   !.status = fetch_jobs[job_id].status,
                                   !.message = fetch_jobs[job_id].message]
    /\ UNCHANGED <<fetch, fetch_jobs, acled_task, acled_collection, acled_call>>
    /\ UNCHANGED score_vars

\* SpecAcledJobs: ACLED fetch jobs and the questions about them.  A task
\* that has been started runs to its end: it is a plain function on a worker
\* thread, and fetch_acled_data returns or raises.
NextAcledJobs ==
    \/ TriggerAcledFetch
    \/ \E job_id \in 1..MaxAcledJobs : RunAcledFetchTaskBegin(job_id)
    \/ \E job_id \in 1..MaxAcledJobs, success \in FetchOutcomes :
         RunAcledFetchTaskEnd(job_id, success)
    \/ \E job_id \in 1..(MaxAcledJobs + 1) : GetAcledStatus(job_id)

SpecAcledJobs ==
    /\ Init
    /\ [][NextAcledJobs]_vars
    /\ \A job_id \in 1..MaxAcledJobs :
          WF_vars(\E success \in FetchOutcomes : RunAcledFetchTaskEnd(job_id, success))

\* ------------------------------------------------- fetch_and_store_acled
\* Events are written with their data_id and the age of their event_date in
\* days; the calls of one run of the model happen on one day.
\* sample_events of _store_sample_acled_data: today, 2, 4 and 7 days ago.
SampleAcledEvents ==
    << [data_id |-> "1", days_ago |-> 0], [data_id |-> "2", days_ago |-> 2],
       [data_id |-> "3", days_ago |-> 4], [data_id |-> "4", days_ago |-> 7] >>

\* What the ACLED API answers: a status other than 200, an exception (the
\* request, response.json() or the cache file), or a list of events.
ApiAnswers ==
    { [kind |-> "error", events |-> <<>>],
      [kind |-> "raised", events |-> <<>>],
      [kind |-> "ok", events |-> <<>>],
      [kind |-> "ok", events |-> <<[data_id |-> "a", days_ago |-> 3]>>],
      [kind |-> "ok", events |-> <<[data_id |-> "a", days_ago |-> 3],
                                   [data_id |-> "b", days_ago |-> 20]>>] }

DaysBack == {7, 30}

\* {"event_date": {"$gte": start_date, "$lte": end_date}}
InDateRange(doc, days_back) == doc.days_ago >= 0 /\ doc.days_ago <= days_back

\* {"data_id": {"$in": ["1", "2", "3", "4"]}}
IsSampleId(doc) == doc.data_id \in {"1", "2", "3", "4"}

\* The collection after the delete_many of the call.
DeleteMany(docs, path, days_back) ==
    IF path = "api"
    THEN SelectSeq(docs, LAMBDA d : ~InDateRange(d, days_back))
    ELSE SelectSeq(docs, LAMBDA d : ~IsSampleId(d))

\* The module is imported: the connection is made, or acled_collection
\* stays None.
ImportAcledClient(connected) ==
    /\ acled_call.pc = "unloaded"
    /\ acled_collection' = IF connected THEN Some(<<>>) ELSE None
    /\ acled_call' = [acled_call EXCEPT !.pc = "idle"]
    /\ UNCHANGED <<fetch, fetch_jobs, acled_task, resp>>
    /\ UNCHANGED score_vars

\* fetch_and_store_acled(days_back, limit) up to its first store
\* operation.  Without API key, on a status other than 200 and on an
\* exception the sample events take the place of the fetched ones
\* (_store_sample_acled_data); without a collection the events go to the
\* cache file only and True is returned.
FetchAndStoreAcled(days_back, api_key, answer) ==
    /\ acled_call.pc = "idle"
    /\ acled_call.call < MaxAcledCalls
    /\ LET path == IF api_key /\ answer.kind = "ok" THEN "api" ELSE "sample"
           fetched == IF path = "api" THEN answer.events ELSE SampleAcledEvents
           started == [NoCall EXCEPT !.call = acled_call.call + 1,
                                     !.days_back = days_back,
                                     !.api_key = api_key,
                                     !.fetched = Some([path |-> path, events |-> fetched]),
                                     !.before = IF acled_collection = None THEN <<>>
                                                ELSE Val(acled_collection)]
       IN  acled_call' = IF acled_collection = None
                         THEN [started EXCEPT !.pc = "idle", !.result = "True"]
                         ELSE [started EXCEPT !.pc = "delete_many"]
    /\ UNCHANGED <<fetch, fetch_jobs, acled_task, acled_collection, resp>>
    /\ UNCHANGED score_vars

\* acled_collection.delete_many(...): the documents of the date range, or
\* those with a sample id, are removed; or the call raises and False is
\* returned.  With no event to insert the call ends here with True.
AcledDeleteMany(raises) ==
    /\ acled_call.pc = "delete_many"
    /\ LET plan == Val(acled_call.fetched)
       IN  IF raises
           THEN /\ acled_call' = [acled_call EXCEPT !.pc = "idle", !.result = "False",
                                                    !.failed_at = "delete_many"]
                /\ UNCHANGED acled_collection
           ELSE /\ acled_collection' =
                      Some(DeleteMany(Val(acled_collection), plan.path, acled_call.days_back))
                /\ acled_call' = IF plan.events = <<>>
                                 THEN [acled_call EXCEPT !.pc = "idle", !.result = "True"]
                                 ELSE [acled_call EXCEPT !.pc = "insert_many"]
    /\ UNCHANGED <<fetch, fetch_jobs, acled_task, resp>>
    /\ UNCHANGED score_vars

\* acled_collection.insert_many(events): every event is inserted and True
\* returned; or the call raises after it has inserted the first `done`
\* events, and False is returned.
AcledInsertMany(raises, done) ==
    /\ acled_call.pc = "insert_many"
    /\ LET plan == Val(acled_call.fetched)
       IN  IF raises
           THEN /\ done < Len(plan.events)
                /\ acled_collection' =
                      Some(Val(acled_collection) \o SubSeq(plan.events, 1, done))
                /\ acled_call' = [acled_call EXCEPT !.pc = "idle", !.result = "False",
                                                    !.failed_at = "insert_many"]
           ELSE /\ done = Len(plan.events)
                /\ acled_collection' = Some(Val(acled_collection) \o plan.events)
                /\ acled_call' = [acled_call EXCEPT !.pc = "idle", !.result = "True"]
    /\ UNCHANGED <<fetch, fetch_jobs, acled_task, resp>>
    /\ UNCHANGED score_vars

\* SpecAcledStore: calls of fetch_and_store_acled, one after the other.
NextAcledStore ==
    \/ \E connected \in BOOLEAN : ImportAcledClient(connected)
    \/ \E days_back \in DaysBack, api_key \in BOOLEAN, answer \in ApiAnswers :
         FetchAndStoreAcled(days_back, api_key, answer)
    \/ \E raises \in BOOLEAN : AcledDeleteMany(raises)
    \/ \E raises \in BOOLEAN, done \in 0..Len(SampleAcledEvents) :
         AcledInsertMany(raises, done)

SpecAcledStore == Init /\ [][NextAcledStore]_vars

\* ------------------------------------------------------------------ claims
\* The documents of coll whose code is code.
WithCode(coll, code) == {i \in 1..Len(coll) : coll[i].code = code}

\* A run holds scores it is writing or has written.
Holding(p) == pc[p] \in {"writing", "returned"} /\ results[p] # <<>>

\* C1 (SpecSerial): after any sequence of scoring runs started from an empty
\* store, of either variant, the sgm_scores store holds at most one document
\* for each country code.
C1_OneRecordPerCode ==
    \A i, j \in 1..Len(store) : store[i].code = store[j].code => i = j

\* A later run, of the other variant, has written the code an earlier run
\* stored: the one document carries the fields of both.
C1_Rewritten ==
    \E i \in 1..Len(store) :
        /\ {"sgm", "avg_goldstein"} \subseteq DOMAIN store[i]
        /\ store[i].updated_at = clock
        /\ clock >= 2

\* C2 (SpecSerial): for every list of scores a run computes and every store
\* it meets, the bulk upsert carried out twice leaves the store as the bulk
\* upsert carried out once does, with one document for each code of the list.
C2_UpsertTwiceIsOnce ==
    \A p \in Procs :
        Holding(p) =>
            LET once  == BulkWrite(store, results[p])
                twice == BulkWrite(once, results[p])
            IN  /\ twice = once
                /\ \A k \in 1..Len(results[p]) :
                       Cardinality(WithCode(twice, results[p][k].code)) = 1

\* A run holds a list with two scores of one code, over a store that holds
\* that code already under other values: the bulk upsert changes the store.
C2_Rerun ==
    \E p \in Procs :
        /\ Holding(p)
        /\ Len(results[p]) = 2
        /\ results[p][1].code = results[p][2].code
        /\ WithCode(store, results[p][1].code) # {}
        /\ BulkWrite(store, results[p]) # store

\* C4 (SpecSerial): an upsert of a score for a code the store already holds
\* leaves the score itself as the document of that code: no field of the
\* earlier document that the score does not carry is left.
C4_Overwritten ==
    [][\A p \in Procs :
          WriteOp(p) =>
              LET score == results[p][next_op[p]]
                  i     == FindOne(store, score.code)
              IN  i # 0 => store'[i] = score]_vars

\* The documents of a collection, whatever their order.
Docs(coll) == {coll[i] : i \in 1..Len(coll)}

\* C3 (Spec): when two runs started through trigger_analysis have both
\* ended their bulk upsert with success, and no other run has written, the
\* store holds what the two runs leave when one is carried out after the
\* other, in one of the two orders.
C3_Serializable ==
    \A p, q \in Jobs :
        ( /\ p # q
          /\ pc[p] = "returned" /\ outcome[p] = "True"
          /\ pc[q] = "returned" /\ outcome[q] = "True"
          /\ sgm_collection
          /\ \A r \in Procs \ {p, q} : pc[r] \in {"idle", "queued"} )
        => \/ Docs(store) = Docs(BulkWrite(BulkWrite(<<>>, results[p]), results[q]))
           \/ Docs(store) = Docs(BulkWrite(BulkWrite(<<>>, results[q]), results[p]))

\* C5 (SpecReads): get_country_sgm_data without details answers records
\* without description, event_count and avg_tone, and takes nothing away:
\* every later answer with details, and every answer of get_country_detail,
\* carries the three fields, the answers from the seed list included.
C5_ProjectionNotDeletion ==
    /\ resp.op = "get_country_sgm_data" =>
          \A i \in 1..Len(resp.rows) :
              IF resp.include_details
              THEN DetailFields \subseteq DOMAIN resp.rows[i]
              ELSE DetailFields \cap DOMAIN resp.rows[i] = {}
    /\ (resp.op = "get_country_detail" /\ resp.row # None) =>
          DetailFields \subseteq DOMAIN Val(resp.row)

\* The answer was given without the store: the collection is None, or the
\* store call raised.
AnsweredWithoutStore ==
    /\ resp.op \in {"get_country_sgm_data", "get_country_detail"}
    /\ ~resp.tried_store \/ resp.read_failed

\* C6 (SpecReads): when the store is unreachable or the store call fails,
\* get_country_sgm_data and get_country_detail raise nothing and answer from
\* SAMPLE_COUNTRIES: the first `limit` seed records, the seed record of the
\* requested code.
C6_FallsBackToSeed ==
    AnsweredWithoutStore =>
        /\ ~resp.raised
        /\ resp.source # "store"
        /\ resp.op = "get_country_sgm_data" =>
              /\ resp.source = "seed"
              /\ resp.rows = SubSeq(SAMPLE_COUNTRIES, 1,
                                    Min(resp.limit, Len(SAMPLE_COUNTRIES)))
        /\ resp.op = "get_country_detail" =>
              LET hits == {i \in 1..Len(SAMPLE_COUNTRIES) :
                              Upper(SAMPLE_COUNTRIES[i].code) = Upper(resp.code)}
              IN  IF hits = {} THEN resp.row = None /\ resp.source = "none"
                  ELSE /\ resp.source = "seed"
                       /\ \E i \in hits : resp.row = Some(SAMPLE_COUNTRIES[i])

\* The store holds documents, the store call of a read failed, and the read
\* was answered with a seed record.
C6_ReadFailed ==
    /\ AnsweredWithoutStore
    /\ resp.read_failed
    /\ store # <<>>
    /\ resp.source = "seed"
    /\ resp.rows # <<>> \/ resp.row # None

C8_NeverRaises ==
    \A p \in Procs : outcome[p] # "raised"

\* C9 (SpecRun): get_analysis_status answers 'failed', with a message, for
\* a job whose run returned False or raised, and 'completed' only for a job
\* whose run returned True.
C9_FailedRunReported ==
    \A p \in Jobs :
        pc[p] = "done" =>
            LET answer == AnalysisStatus(analysis_jobs, p[2])
            IN  /\ outcome[p] \in {"False", "raised"} =>
                      answer.status = "failed" /\ answer.message # ""
                /\ answer.status = "completed" => outcome[p] = "True"

\* An event that carries neither a country nor a country code; a row of the
\* service carries its country in `location` only.
Malformed(p, event) ==
    IF p \in Jobs
    THEN /\ Get(event, "country", None) = None
         /\ ~TruthyStr(Get(event, "country_code", None))
    ELSE Get(event, "location", None) = None

\* The events of a batch that carry a country.
WellFormed(p) == SelectSeq(events[p], LAMBDA e : ~Malformed(p, e))

\* The run has aggregated a batch in which some events carry no country and
\* the others are sound.
HasMalformed(p) ==
    /\ pc[p] \in {"writing", "returned"}
    /\ \E i \in 1..Len(events[p]) : Malformed(p, events[p][i])
    /\ p \in Svcs => \A i \in 1..Len(WellFormed(p)) : ~SvcRaises(WellFormed(p)[i])

\* C10 (SpecRun): an event with neither country nor country code is skipped:
\* the batch is aggregated to the end, every score is the score of a country
\* some other event names, and the scores count the other events, each once.
C10_MalformedSkipped ==
    \A p \in Procs :
        HasMalformed(p) =>
            /\ outcome[p] # "raised"
            /\ WellFormed(p) # <<>> => results[p] # <<>>
            /\ SumSeq([i \in 1..Len(results[p]) |-> results[p][i].event_count])
                  = Len(WellFormed(p))
            /\ \A i \in 1..Len(results[p]) :
                   \E j \in 1..Len(WellFormed(p)) :
                       results[p][i].country \in
                           {GdeltCountry(WellFormed(p)[j]), SvcCountry(WellFormed(p)[j])}

\* The run has fetched, by its real fetcher, a batch of no events.
RanOnNoEvents(p) ==
    /\ pc[p] = "returned"
    /\ events[p] = <<>>
    /\ p \in Jobs => gdelt_importable

\* C11 (SpecRun): a run whose fetch gives no event produces no score,
\* writes nothing to the store and returns success, in the function and in
\* the SGMService variant.
C11_NoEventsNoOp ==
    \A p \in Procs :
        RanOnNoEvents(p) =>
            /\ results[p] = <<>>
            /\ store = <<>>
            /\ outcome[p] = "True"

\* C12 (SpecAbandon): the store changes only by an upsert of a run that has
\* reached its bulk write; fetching, aggregating and scoring, and a run that
\* fails in them, leave the store as it was.
C12_NothingBeforeUpsert ==
    [][store' # store =>
          \E p \in Procs :
              /\ pc[p] = "writing"
              /\ store' = UpdateOne(store, results[p][next_op[p]])]_vars

\* A run has failed while aggregating, over a store that holds documents.
C12_FailedBeforeUpsert ==
    \E p \in Procs :
        /\ pc[p] = "returned"
        /\ events[p] # <<>> /\ results[p] = <<>>
        /\ outcome[p] \in {"False", "raised"}
        /\ store # <<>>

\* The store is there for run p: the collection of the routes module, the
\* client of the service module.
StoreThere(p) == IF p \in Jobs THEN sgm_collection ELSE mongo_client

\* Run p had scores to store and its storing did not succeed: the store is
\* not there, or the write raised.
StoringFailed(p) ==
    /\ pc[p] = "returned"
    /\ results[p] # <<>>
    /\ ~StoreThere(p) \/ outcome[p] = "False"

\* C13 (SpecRun): when the store is not there or the bulk write fails,
\* storing raises nothing, the run returns False, and the store is as it was
\* before the call (empty, for the one run of SpecRun).
C13_StoreFailureIsStatus ==
    \A p \in Procs :
        StoringFailed(p) =>
            /\ outcome[p] = "False"
            /\ store = <<>>

\* Run p has scored a batch of events (the seed records of the sample-data
\* branch are not scores of events).
Scored(p) ==
    /\ pc[p] \in {"writing", "returned"}
    /\ events[p] # <<>>
    /\ results[p] # <<>>

\* The scores emitted by the runs that have scored.
Emitted == UNION { {results[p][i] : i \in 1..Len(results[p])} :
                      p \in {q \in Procs : Scored(q)} }

\* The category the thresholds give to a composite value.
Bucket(gscs) ==
    IF gscs <= 2 * Unit THEN "Non-Supremacist Governance"
    ELSE IF gscs <= 4 * Unit THEN "Mixed Governance"
    ELSE IF gscs <= 6 * Unit THEN "Soft Supremacism"
    ELSE IF gscs <= 8 * Unit THEN "Structural Supremacism"
    ELSE "Extreme Supremacism"

\* C14 (SpecScore): the category of every emitted score is the bucket of the
\* gscs the score carries, so two scores with the same gscs have the same
\* category.
C14_CategoryOfEmittedGscs ==
    /\ \A s \in Emitted : s.category = Bucket(s.gscs)
    /\ \A s, u \in Emitted : s.gscs = u.gscs => s.category = u.category

\* The country run p files an event under.
CountryOf(p, event) == IF p \in Jobs THEN GdeltCountry(event) ELSE SvcCountry(event)

\* The events of run p aggregated into its i-th score.
Group(p, i) ==
    SelectSeq(events[p], LAMBDA e : CountryOf(p, e) = results[p][i].country)

\* The value of a field of an event, an absent or null value counting as 0.
FieldOrZero(event, field) ==
    LET x == Get(event, field, None) IN IF x = None THEN 0 ELSE Val(x)

FieldSum(p, i, field) ==
    SumSeq([k \in 1..Len(Group(p, i)) |-> FieldOrZero(Group(p, i)[k], field)])

\* 2n * clamp(5 - (sum / n) / 2, 0, 10), in 1/Unit parts: the clamped score
\* of the mean of n values, without any division.
Clamped2N(sum, n) == Min(20 * Unit * n, Max(0, 10 * Unit * n - sum))

Abs(x) == IF x < 0 THEN -x ELSE x

\* The pairs (run, index) of the emitted scores.
ScoreIds == {<<p, i>> \in Procs \X (1..(MaxEvents + 1)) :
                Scored(p) /\ i <= Len(results[p])}

\* C15, as stated (SpecScore): every emitted srsI and srsD lies in [0, 10]
\* and equals clamp(5 - mean / 2, 0, 10) of the group's mean tone, and mean
\* Goldstein value.
C15_ClampedExactly ==
    \A id \in ScoreIds :
        LET p == id[1]
            i == id[2]
            n == Len(Group(p, i))
            s == results[p][i]
        IN  /\ s.srsI \in 0..(10 * Unit) /\ s.srsD \in 0..(10 * Unit)
            /\ s.srsI * 2 * n = Clamped2N(FieldSum(p, i, "avg_tone"), n)
            /\ s.srsD * 2 * n = Clamped2N(FieldSum(p, i, "goldstein_scale"), n)

\* C15, amended (SpecScore): every emitted srsI and srsD lies in [0, 10] and
\* is clamp(5 - mean / 2, 0, 10) rounded to one decimal place, so within 0.05
\* of it; a mean tone of -10 or below gives srsI = 10, of 10 or above 0.
C15_ClampedRounded ==
    \A id \in ScoreIds :
        LET p == id[1]
            i == id[2]
            n == Len(Group(p, i))
            s == results[p][i]
            tone == FieldSum(p, i, "avg_tone")
            gold == FieldSum(p, i, "goldstein_scale")
        IN  /\ s.srsI \in 0..(10 * Unit) /\ s.srsD \in 0..(10 * Unit)
            /\ s.srsI % (Unit \div 10) = 0 /\ s.srsD % (Unit \div 10) = 0
            /\ Abs(s.srsI * 2 * n - Clamped2N(tone, n)) * 10 <= Unit * n
            /\ Abs(s.srsD * 2 * n - Clamped2N(gold, n)) * 10 <= Unit * n
            /\ tone <= -10 * Unit * n => s.srsI = 10 * Unit
            /\ tone >= 10 * Unit * n => s.srsI = 0

\* A score whose srsI is clamped and whose srsD is rounded.
C15_ClampedAndRounded ==
    \E id \in ScoreIds :
        LET p == id[1]
            i == id[2]
            n == Len(Group(p, i))
            s == results[p][i]
        IN  /\ FieldSum(p, i, "avg_tone") < -10 * Unit * n
            /\ s.srsI = 10 * Unit
            /\ s.srsD * 2 * n # Clamped2N(FieldSum(p, i, "goldstein_scale"), n)

\* C16 (SpecScore): every score emitted by a run, of either variant of the
\* calculator, carries the fields gscs and sgm, with the same value.
C16_GscsAndSgm ==
    \A s \in Emitted :
        /\ {"gscs", "sgm"} \subseteq DOMAIN s
        /\ s.gscs = s.sgm

Clamp100(x) == Max(0, Min(100, x))

\* int(G * 8) for the unrounded composite value G of the i-th score of run
\* p, from the sums of its group: 4n * G = Clamped2N(tone) + Clamped2N(gold).
TruncatedEightfold(p, i) ==
    LET n == Len(Group(p, i))
    IN  (2 * (Clamped2N(FieldSum(p, i, "avg_tone"), n)
              + Clamped2N(FieldSum(p, i, "goldstein_scale"), n)))
           \div (n * Unit)

\* C17, as stated (SpecScore): every emitted sti is an integer in 0..100 and
\* is clamp(round(gscs * 8) + j, 0, 100) for some j in -10..10, gscs being
\* the value the score carries.
C17_RoundedEightfold ==
    \A id \in ScoreIds :
        LET s == results[id[1]][id[2]]
        IN  /\ s.sti \in 0..100
            /\ \E j \in Jitters :
                   s.sti = Clamp100((RoundTo(s.gscs * 8, Unit) \div Unit) + j)

\* C17, amended (SpecScore): every emitted sti is an integer in 0..100 and
\* is clamp(int(G * 8) + j, 0, 100) for some j in -10..10, G being the
\* composite value before it is rounded and int cutting the fraction off.
C17_TruncatedEightfold ==
    \A id \in ScoreIds :
        LET s == results[id[1]][id[2]]
        IN  /\ s.sti \in 0..100
            /\ \E j \in Jitters :
                   s.sti = Clamp100(TruncatedEightfold(id[1], id[2]) + j)

\* A score whose index the lower clamp has set, and not the jitter alone.
C17_ClampAtWork ==
    \E id \in ScoreIds :
        /\ results[id[1]][id[2]].sti = 0
        /\ TruncatedEightfold(id[1], id[2]) < 10

\* The adjustment of the fixed table for an event type.
TypeAdjustment(event_type) ==
    CASE event_type = "Violence against civilians" -> 2
      [] event_type = "Battle" -> 3
      [] event_type = "Explosion/Remote violence" -> 3
      [] event_type = "Riots" -> 1
      [] event_type = "Strategic development" -> -1
      [] OTHER -> 0

\* C18 (SpecIntensity): every intensity computed for an ACLED event, by
\* calculate_intensity and by the heatmap processing, is
\* clamp(5 + type_adjustment + min(3, fatalities // 5), 0, 10).
C18_IntensityFormula ==
    resp.op \in {"get_acled_events", "get_acled_data_for_heatmap"} =>
        \A i \in 1..Len(resp.rows) :
            LET row == resp.rows[i]
                fatalities == IF row.fatalities = None THEN 0 ELSE Val(row.fatalities)
            IN  row.intensity =
                   Unit * Max(0, Min(10, 5 + TypeAdjustment(row.event_type)
                                           + Min(3, fatalities \div 5)))


\* C19 (SpecScore): events that resolve to the same code are aggregated into
\* one score: in the list of scores one run emits, no two scores carry the
\* same code.
C19_OneScorePerCode ==
    \A p \in Procs :
        Scored(p) =>
            \A i, j \in 1..Len(results[p]) :
                results[p][i].code = results[p][j].code => i = j


\* The srsI and srsD of a score are those of the means of a group of n events
\* with the given sums: clamp(5 - mean / 2, 0, 10) to one decimal.
FromMeans(s, tone, gold, n) ==
    /\ s.event_count = n
    /\ Abs(s.srsI * 2 * n - Clamped2N(tone, n)) * 10 <= Unit * n
    /\ Abs(s.srsD * 2 * n - Clamped2N(gold, n)) * 10 <= Unit * n

\* The end-to-end example: tones -4 and -2 with Goldstein -6 and -2 give
\* avg_tone -3, srsI 6.5 and srsD 7.0.
ExampleHolds(s, tone, gold, n) ==
    (n = 2 /\ tone = -6 * Unit /\ gold = -8 * Unit) =>
        /\ s.avg_tone = -3 * Unit
        /\ s.srsI = (65 * Unit) \div 10
        /\ s.srsD = 7 * Unit

\* C20, as stated (SpecScore): the avg_tone of every emitted score is exactly
\* the mean of the tones of the N events aggregated into it, and srsI and
\* srsD are computed from the means over those N events.
C20_ExactMean ==
    \A id \in ScoreIds :
        LET p == id[1]
            i == id[2]
            n == Len(Group(p, i))
            s == results[p][i]
            tone == FieldSum(p, i, "avg_tone")
            gold == FieldSum(p, i, "goldstein_scale")
        IN  /\ s.avg_tone * n = tone
            /\ FromMeans(s, tone, gold, n)
            /\ ExampleHolds(s, tone, gold, n)

\* C20, amended (SpecScore): the avg_tone of every emitted score is the mean
\* of the tones of the N events aggregated into it rounded to two decimals
\* (a multiple of 0.01 within 0.005 of the mean), and srsI and srsD are
\* computed from the means over those N events.
C20_MeanToTwoDecimals ==
    \A id \in ScoreIds :
        LET p == id[1]
            i == id[2]
            n == Len(Group(p, i))
            s == results[p][i]
            tone == FieldSum(p, i, "avg_tone")
            gold == FieldSum(p, i, "goldstein_scale")
        IN  /\ s.avg_tone % (Unit \div 100) = 0
            /\ Abs(s.avg_tone * n - tone) * 200 <= Unit * n
            /\ FromMeans(s, tone, gold, n)
            /\ ExampleHolds(s, tone, gold, n)

\* Witness of C20: a score aggregated from two events whose mean tone has
\* three decimals (-4.01 and -2), carried to two.
C20_MeanWasRounded ==
    \E id \in ScoreIds :
        LET p == id[1]
            i == id[2]
            s == results[p][i]
        IN  /\ Len(Group(p, i)) = 2
            /\ s.event_count = 2
            /\ FieldSum(p, i, "avg_tone") = (-601 * Unit) \div 100
            /\ s.avg_tone * 2 # FieldSum(p, i, "avg_tone")


\* The event that opened the group of the i-th score of run p.
Opener(p, i) == Group(p, i)[1]

\* The indices of the canonical table whose name occurs, in any case, in a
\* country name.
TableHits(name) ==
    {k \in 1..Len(country_codes) : Contains(Lower(name), Lower(country_codes[k].name))}

\* C21 (SpecCode): the code of every emitted score is the country_code its
\* group's opening event provides, when it provides one; otherwise the code
\* of a table entry whose name is a case-insensitive substring of the country
\* name; otherwise the first two letters of the name in upper case. In both
\* variants of the aggregator.
C21_CodeResolutionOrder ==
    \A id \in ScoreIds :
        LET p == id[1]
            i == id[2]
            s == results[p][i]
            given == Get(Opener(p, i), "country_code", None)
            name == Val(s.country)
        IN  IF given # None /\ Val(given) # <<>>
            THEN s.code = Val(given)
            ELSE IF TableHits(name) # {}
                 THEN \E k \in TableHits(name) : s.code = country_codes[k].code
                 ELSE s.code = Upper(Prefix(name, 2))

\* Witness of C21: one run emitted a score whose code was provided and a
\* score whose code came from the table, where the first two letters would
\* have given another code.
C21_ProvidedAndTable ==
    \E p \in Procs :
        /\ Scored(p)
        /\ \E i, j \in 1..Len(results[p]) :
             /\ Get(Opener(p, i), "country_code", None) = Some(<<"k", "e">>)
             /\ results[p][i].code = <<"k", "e">>
             /\ results[p][j].code = <<"D", "E">>
             /\ Upper(Prefix(Val(results[p][j].country), 2)) # <<"D", "E">>


\* The run has aggregated a batch of events to the end and scored its groups.
Aggregated(p) ==
    /\ pc[p] \in {"writing", "returned"}
    /\ events[p] # <<>>
    /\ \A k \in 1..Len(events[p]) :
          IF p \in Jobs THEN ~GdeltRaises(events[p][k]) ELSE ~SvcRaises(events[p][k])

\* The number of events of run p that belong to a country.
CountOf(p, country) ==
    Cardinality({k \in 1..Len(events[p]) : CountryOf(p, events[p][k]) = country})

Coordinate(event, field) == Get(event, field, Some(0))

\* C23 (SpecCode): the latitude and longitude of every score
\* process_gdelt_data emits are those of the first event of its group in
\* input order, whatever the later events of the group carry.
C23_FirstCoordinates ==
    \A p \in Jobs :
        (Scored(p) /\ gdelt_importable) =>
            \A i \in 1..Len(results[p]) :
                LET first == CHOOSE k \in 1..Len(events[p]) :
                                 /\ CountryOf(p, events[p][k]) = results[p][i].country
                                 /\ \A j \in 1..(k - 1) :
                                        CountryOf(p, events[p][j]) # results[p][i].country
                IN  /\ results[p][i].latitude = Coordinate(events[p][first], "latitude")
                    /\ results[p][i].longitude = Coordinate(events[p][first], "longitude")

\* Witness of C23: a score aggregated from two events with different
\* coordinates carries those of the first.
C23_LaterEventElsewhere ==
    \E p \in Jobs :
        /\ Scored(p) /\ gdelt_importable
        /\ Len(events[p]) = 2 /\ Len(results[p]) = 1
        /\ Coordinate(events[p][1], "latitude") # Coordinate(events[p][2], "latitude")
        /\ Coordinate(events[p][1], "longitude") # Coordinate(events[p][2], "longitude")
        /\ results[p][1].latitude = Coordinate(events[p][1], "latitude")
        /\ results[p][1].longitude = Coordinate(events[p][1], "longitude")


\* C24 (SpecReads): get_country_sgm_data(limit, include_details) returns at
\* most limit records for every non-negative limit, from the store and from
\* the seed dataset alike.
C24_AtMostLimit ==
    resp.op = "get_country_sgm_data" => Len(resp.rows) <= resp.limit


\* The requests of the call answered with status 200, and those of them
\* whose body is JSON.
Answered200 == {n \in 1..Len(fetch.sent) : fetch.sent[n].status = 200}
AnsweredJson == {n \in Answered200 : fetch.sent[n].json}

\* C25, as stated (SpecFetch): fetch_with_retry ends after at most
\* max_retries requests, returns the body of the first request answered with
\* status 200, and None when no request was answered with 200.
C25_FirstAnswered200 ==
    /\ Len(fetch.sent) <= fetch.max_retries
    /\ fetch.pc = "returned" =>
          IF Answered200 = {} THEN fetch.result = None
          ELSE fetch.result = Some(CHOOSE n \in Answered200 : \A m \in Answered200 : n <= m)

\* C25, amended (SpecFetch): fetch_with_retry ends after at most max_retries
\* requests, returns the body of the first request answered with status 200
\* and a body that is JSON, after which it sends no request, and None when
\* no request was answered so.
C25_FirstAnsweredJson ==
    /\ Len(fetch.sent) <= fetch.max_retries
    /\ fetch.pc = "loop" => Len(fetch.sent) < fetch.max_retries
    /\ fetch.pc = "returned" =>
          IF AnsweredJson = {} THEN fetch.result = None
          ELSE /\ AnsweredJson = {Len(fetch.sent)}
               /\ fetch.result = Some(Len(fetch.sent))

\* Witness of C25: a call that used all of its three requests returned the
\* body of the third, after a refusal and a body that was not JSON.
C25_ThirdTimeLucky ==
    /\ fetch.pc = "returned"
    /\ fetch.max_retries = 3
    /\ Len(fetch.sent) = 3
    /\ fetch.sent[1].status = 429
    /\ fetch.sent[2].status = 200 /\ ~fetch.sent[2].json
    /\ fetch.result = Some(3)

\* C26 (SpecFetch): attempt k that ends in status 429 or in an exception is
\* followed by a wait of at least base_wait * 2^k before the next request; a
\* response with another status than 200 and 429 ends the call at once, with
\* None and no further request.
C26_BackoffOrStop ==
    \A n \in 1..Len(fetch.sent) :
        LET request == fetch.sent[n]
        IN  /\ request.attempt = n - 1
            /\ (request.status \in {0, 429} /\ n < Len(fetch.sent)) =>
                   fetch.sent[n + 1].at - request.at
                       >= fetch.base_wait * (2 ^ request.attempt)
            /\ request.status \in {0, 429} =>
                   fetch.now - request.at >= fetch.base_wait * (2 ^ request.attempt)
            /\ request.status \notin {0, 200, 429} =>
                   /\ n = Len(fetch.sent)
                   /\ fetch.pc = "returned"
                   /\ fetch.result = None

\* Witness of C26: a refused request and then a server error: the second
\* request left 10 s or more after the first, and the call ended with it
\* although a turn was left.
C26_WaitedThenStopped ==
    /\ fetch.max_retries = 3 /\ fetch.base_wait = 10
    /\ Len(fetch.sent) = 2
    /\ fetch.sent[1].status = 429
    /\ fetch.sent[2].status = 500
    /\ fetch.sent[2].at - fetch.sent[1].at >= 10
    /\ fetch.pc = "returned"


\* The status of a registered ACLED fetch job.
AcledStatus(job_id) == fetch_jobs[job_id].status

\* C27 (SpecAcledJobs): a registered ACLED fetch job moves from started to
\* in_progress and from there to completed or failed, and nowhere else; it
\* is completed exactly when fetch_acled_data returned a true value; a
\* completed or failed job keeps its status; and a job whose task runs
\* reaches completed or failed.
C27_FetchJobLifecycle ==
    /\ [][\A job_id \in DOMAIN fetch_jobs :
            /\ job_id \in DOMAIN fetch_jobs'
            /\ \/ AcledStatus(job_id)' = AcledStatus(job_id)
               \/ AcledStatus(job_id) = "started" /\ AcledStatus(job_id)' = "in_progress"
               \/ AcledStatus(job_id) = "in_progress"
                    /\ AcledStatus(job_id)' \in {"completed", "failed"}
            /\ AcledStatus(job_id)' = "completed" <=> acled_task'[job_id].success = "True"]_vars
    /\ \A job_id \in 1..MaxAcledJobs :
          (acled_task[job_id].pc = "running") ~>
              (job_id \in DOMAIN fetch_jobs
                 /\ AcledStatus(job_id) \in {"completed", "failed"})

\* Witness of C27: one job completed after a fetch that returned True and
\* another failed after a fetch that raised.
C27_OneCompletedOneFailed ==
    /\ Len(fetch_jobs) = 2
    /\ AcledStatus(1) = "completed" /\ acled_task[1].success = "True"
    /\ AcledStatus(2) = "failed" /\ acled_task[2].success = "raised"

\* C28 (SpecAcledJobs): get_acled_status reports 'completed' for a job id
\* only if the job was registered by trigger_acled_fetch and its fetch task
\* finished successfully.
C28_CompletedOnlyIfDone ==
    (resp.op = "get_acled_status" /\ resp.status = "completed") =>
        /\ resp.job \in DOMAIN fetch_jobs
        /\ acled_task[resp.job].pc = "done"
        /\ acled_task[resp.job].success = "True"


\* C29 (SpecReads): when the store is reachable get_country_detail answers
\* from the store alone: a code without a record there is not found; a seed
\* record is returned only when the store is unreachable or the read failed.
C29_SeedOnlyWhenUnreachable ==
    resp.op = "get_country_detail" =>
        /\ resp.source = "seed" => (~resp.tried_store \/ resp.read_failed)
        /\ (resp.tried_store /\ ~resp.read_failed /\ FindOne(store, Upper(resp.code)) = 0) =>
               resp.row = None


\* C30 (SpecAcledStore): when fetch_and_store_acled returns False because
\* storing the fetched events failed, the events that were in the store
\* before the call for the requested date range are still there.
C30_FailedRefreshKeepsEvents ==
    (acled_call.pc = "idle" /\ acled_call.result = "False"
       /\ acled_call.failed_at \in {"delete_many", "insert_many"}) =>
        \A k \in 1..Len(acled_call.before) :
            InDateRange(acled_call.before[k], acled_call.days_back) =>
                \E m \in 1..Len(Val(acled_collection)) :
                    Val(acled_collection)[m] = acled_call.before[k]

====
